---------------------------- MODULE Spec2Model ----------------------------
(***************************************************************************)
(* A model of file_renamer.py (class RegexFileRenamerGUI).                 *)
(*                                                                         *)
(* File names and the text fields are sequences of one-character strings,  *)
(* so that the regular expressions, the case conversions, str.strip and    *)
(* the sort order of the listing are computed character by character.      *)
(* "TAB" and "NBSP" stand for U+0009 and U+00A0.  A path is the sequence   *)
(* of its components: os.path.join(d, n) is Append(d, n).                  *)
(*                                                                         *)
(* Every event handler is a frame on `stack`.  log_output() ends with      *)
(* self.root.update(), which dispatches the pending events, so each        *)
(* log_output call site is a place where the handlers of other events run  *)
(* to completion (or to their own log_output) before the caller goes on.   *)
(* Message boxes are modal: nothing else runs while one is open.           *)
(***************************************************************************)
EXTENDS Integers, Sequences, FiniteSets, TLC

(***************************************************************************)
(* Characters                                                              *)
(***************************************************************************)

\* The characters of the model in code point order (the order sorted() uses).
CharTable ==
    << "TAB", " ", "\"", "#", "*", "-", ".", "/",
       "0", "1", "2", "3", "4", "5", "6", "7", "8", "9",
       ":", "<", ">", "?",
       "A", "B", "C", "D", "E", "F", "G", "H", "I", "J", "K", "L", "M",
       "N", "O", "P", "Q", "R", "S", "T", "U", "V", "W", "X", "Y", "Z",
       "\\", "_",
       "a", "b", "c", "d", "e", "f", "g", "h", "i", "j", "k", "l", "m",
       "n", "o", "p", "q", "r", "s", "t", "u", "v", "w", "x", "y", "z",
       "|", "NBSP" >>

\* The place of each character in the table.
CharIndex ==
    [c \in {CharTable[i] : i \in 1..Len(CharTable)} |->
        CHOOSE i \in 1..Len(CharTable) : CharTable[i] = c]

\* ord(c), up to the gaps between the characters of the table
Ord(c) == CharIndex[c]

Digit == {"0", "1", "2", "3", "4", "5", "6", "7", "8", "9"}
AsciiUpper == {CharTable[i] : i \in Ord("A")..Ord("Z")}
AsciiLower == {CharTable[i] : i \in Ord("a")..Ord("z")}
AsciiLetter == AsciiUpper \cup AsciiLower
\* \s of a str pattern, and what str.strip and str.split take for white space
Whitespace == {" ", "TAB", "NBSP"}
\* \w of a str pattern
WordChar == AsciiLetter \cup Digit \cup {"_"}

ToUpper(c) == IF c \in AsciiLower THEN CharTable[Ord(c) - Ord("a") + Ord("A")] ELSE c
ToLower(c) == IF c \in AsciiUpper THEN CharTable[Ord(c) - Ord("A") + Ord("a")] ELSE c

\* ILLEGAL_CHARS_WIN = r'[<>:"/\\|?*]'
ILLEGAL_CHARS_WIN == {"<", ">", ":", "\"", "/", "\\", "|", "?", "*"}

(***************************************************************************)
(* Strings                                                                 *)
(***************************************************************************)

Upper(s) == [i \in 1..Len(s) |-> ToUpper(s[i])]
Lower(s) == [i \in 1..Len(s) |-> ToLower(s[i])]
\* str.capitalize
Capitalize(s) == [i \in 1..Len(s) |-> IF i = 1 THEN ToUpper(s[i]) ELSE ToLower(s[i])]

RECURSIVE LStrip(_)
LStrip(s) == IF s # <<>> /\ Head(s) \in Whitespace THEN LStrip(Tail(s)) ELSE s

RECURSIVE RStrip(_)
RStrip(s) ==
    IF s # <<>> /\ s[Len(s)] \in Whitespace THEN RStrip(SubSeq(s, 1, Len(s) - 1)) ELSE s

\* str.strip()
Strip(s) == RStrip(LStrip(s))

\* s < t in the order of sorted(): code point by code point, a prefix first
RECURSIVE StrLess(_, _)
StrLess(s, t) ==
    IF t = <<>> THEN FALSE
    ELSE IF s = <<>> THEN TRUE
    ELSE IF Head(s) # Head(t) THEN Ord(Head(s)) < Ord(Head(t))
    ELSE StrLess(Tail(s), Tail(t))

\* t occurs in s at position i
OccursAt(t, s, i) == i + Len(t) - 1 <= Len(s) /\ SubSeq(s, i, i + Len(t) - 1) = t

\* str.split(): the maximal runs of characters that are not white space
RECURSIVE Split(_)
Split(s) ==
    LET t == LStrip(s) IN
    IF t = <<>> THEN <<>>
    ELSE LET n == IF \E i \in 1..Len(t) : t[i] \in Whitespace
                  THEN (CHOOSE i \in 1..Len(t) :
                            t[i] \in Whitespace /\ \A j \in 1..(i - 1) : t[j] \notin Whitespace) - 1
                  ELSE Len(t)
         IN <<SubSeq(t, 1, n)>> \o Split(SubSeq(t, n + 1, Len(t)))

\* " ".join(parts)
RECURSIVE JoinSpace(_)
JoinSpace(parts) ==
    IF parts = <<>> THEN <<>>
    ELSE IF Len(parts) = 1 THEN parts[1]
    ELSE parts[1] \o <<" ">> \o JoinSpace(Tail(parts))


(***************************************************************************)
(* Paths and the file system                                               *)
(***************************************************************************)

\* os.path.join(dir_path, filename)
Join(d, n) == Append(d, n)
\* os.path.basename(full_path)
Basename(p) == p[Len(p)]
\* os.path.dirname(full_path)
Dirname(p) == SubSeq(p, 1, Len(p) - 1)

\* The path as the string Python compares: its components joined by "/".
RECURSIVE PathStr(_)
PathStr(p) ==
    IF p = <<>> THEN <<>>
    ELSE IF Len(p) = 1 THEN p[1]
    ELSE p[1] \o <<"/">> \o PathStr(Tail(p))

PathLess(x, y) == StrLess(PathStr(x), PathStr(y))

\* A file system maps each existing path to [kind, content, locked].
IsDir(f, p) == p \in DOMAIN f /\ f[p].kind = "dir"
IsFile(f, p) == p \in DOMAIN f /\ f[p].kind = "file"

\* The names of the entries of directory d, as a set.
Entries(f, d) == {Basename(p) : p \in {x \in DOMAIN f : Len(x) = Len(d) + 1 /\ Dirname(x) = d}}

\* os.listdir returns the entries in an arbitrary order: the orders it may use.
RECURSIVE Orders(_)
Orders(S) ==
    IF S = {} THEN {<<>>}
    ELSE UNION {{<<x>> \o t : t \in Orders(S \ {x})} : x \in S}

\* sorted(): insertion into a sorted list, then insertion sort
RECURSIVE InsertSorted(_, _)
InsertSorted(x, s) ==
    IF s = <<>> THEN <<x>>
    ELSE IF PathLess(Head(s), x) THEN <<Head(s)>> \o InsertSorted(x, Tail(s))
    ELSE <<x>> \o s

RECURSIVE Sorted(_)
Sorted(s) == IF s = <<>> THEN <<>> ELSE InsertSorted(Head(s), Sorted(Tail(s)))

\* The loop of collect_files over the listing: the entries that are regular files.
RECURSIVE CollectLoop(_, _, _)
CollectLoop(f, dir_path, listing) ==
    IF listing = <<>> THEN <<>>
    ELSE LET full_path == Join(dir_path, Head(listing))
             rest == CollectLoop(f, dir_path, Tail(listing))
         IN IF IsFile(f, full_path) THEN <<full_path>> \o rest ELSE rest

\* The regular files below the subdirectories of d, in some order.
FilesBelow(f, d) ==
    CHOOSE o \in Orders({x \in DOMAIN f : /\ Len(x) > Len(d) + 1
                                          /\ SubSeq(x, 1, Len(d)) = d
                                          /\ f[x].kind = "file"}) : TRUE

\* A collect_files that honours its recursive flag (the code ignores it).
CollectFilesWalking(f, dir_path, listing, recursive) ==
    Sorted(CollectLoop(f, dir_path, listing)
           \o (IF recursive THEN FilesBelow(f, dir_path) ELSE <<>>))

\* collect_files(dir_path, recursive); listing is what os.listdir(dir_path) returned
CollectFiles(f, dir_path, listing, recursive) ==
    Sorted(CollectLoop(f, dir_path, listing))

(***************************************************************************)
(* Regular expressions: re.search and re.sub for the patterns of the code  *)
(***************************************************************************)

\* The result of a call that may raise: [ok, val].
Raised == [ok |-> FALSE, val |-> <<>>]
Value(v) == [ok |-> TRUE, val |-> v]
\* x followed by the result r
After(x, r) == IF r.ok THEN Value(x \o r.val) ELSE Raised

DigitVal(c) == Ord(c) - Ord("0")

OctDigit == {"0", "1", "2", "3", "4", "5", "6", "7"}

\* ord(c), the code point itself
CodePoint(c) ==
    CASE c \in Digit -> 48 + DigitVal(c)
      [] c \in AsciiUpper -> 65 + Ord(c) - Ord("A")
      [] c \in AsciiLower -> 97 + Ord(c) - Ord("a")
      [] c = "TAB" -> 9
      [] c = " " -> 32
      [] c = "\"" -> 34
      [] c = "#" -> 35
      [] c = "*" -> 42
      [] c = "-" -> 45
      [] c = "." -> 46
      [] c = "/" -> 47
      [] c = ":" -> 58
      [] c = "<" -> 60
      [] c = ">" -> 62
      [] c = "?" -> 63
      [] c = "\\" -> 92
      [] c = "_" -> 95
      [] c = "|" -> 124
      [] c = "NBSP" -> 160

\* chr(n), for the code points of the table
Chr(n) == CHOOSE c \in DOMAIN CharIndex : CodePoint(c) = n

\* The letters that parse_template reads as an escape or a group name.
EscapeLetter == {"a", "b", "f", "g", "n", "r", "t", "v"}

\* The replacement template t expanded with the groups g of one match
\* (re's parse_template and expand_template).  A digit after the backslash
\* starts a group number of one or two digits, or, with two more octal
\* digits, the octal escape of a character.  Not defined for \0 nor for
\* the letters of EscapeLetter: the texts of the model do not hold them.
RECURSIVE ExpandTemplate(_, _)
ExpandTemplate(t, g) ==
    IF t = <<>> THEN Value(<<>>)
    ELSE IF Head(t) # "\\" THEN After(<<Head(t)>>, ExpandTemplate(Tail(t), g))
    ELSE IF Len(t) = 1 THEN Raised                    \* bad escape (end of pattern)
    ELSE LET c == t[2]
             two == Len(t) >= 3 /\ t[3] \in Digit
             octal == /\ two /\ Len(t) >= 4
                      /\ {c, t[3], t[4]} \subseteq OctDigit
             code == 64 * DigitVal(c) + 8 * DigitVal(t[3]) + DigitVal(t[4])
         IN CASE c \in Digit \ {"0"} /\ octal ->
                     IF code > 255 THEN Raised          \* octal escape out of range
                     ELSE After(<<Chr(code)>>, ExpandTemplate(SubSeq(t, 5, Len(t)), g))
              [] c \in Digit \ {"0"} /\ two /\ ~octal ->
                     \* a group number of two digits: no pattern here has ten groups
                     Raised
              [] c \in Digit \ {"0"} /\ ~two ->
                     IF DigitVal(c) <= Len(g)
                     THEN After(g[DigitVal(c)], ExpandTemplate(SubSeq(t, 3, Len(t)), g))
                     ELSE Raised                       \* invalid group reference
              [] c = "\\" ->
                     After(<<"\\">>, ExpandTemplate(SubSeq(t, 3, Len(t)), g))
              [] c \in AsciiLetter \ EscapeLetter ->
                     Raised                            \* bad escape
              [] c \notin AsciiLetter \cup Digit \cup {"\\"} ->
                     After(<<"\\", c>>, ExpandTemplate(SubSeq(t, 3, Len(t)), g))

\* The patterns of the code, each with the number of its groups.
PatWhitespaceRun == [kind |-> "class_run", class |-> Whitespace, lit |-> <<>>]    \* \s+
PatDigitRun == [kind |-> "class_run", class |-> Digit, lit |-> <<>>]              \* \d+
\* [^a-zA-Z0-9._\-\s]
PatSpecialChar ==
    [kind |-> "class_char",
     class |-> {CharTable[i] : i \in 1..Len(CharTable)}
                   \ (AsciiLetter \cup Digit \cup {".", "_", "-"} \cup Whitespace),
     lit |-> <<>>]
\* [^\d]
PatNonDigit ==
    [kind |-> "class_char",
     class |-> {CharTable[i] : i \in 1..Len(CharTable)} \ Digit, lit |-> <<>>]
PatWhole == [kind |-> "whole", class |-> {}, lit |-> <<>>]                        \* ^(.*)$
PatStemExt == [kind |-> "stem_ext", class |-> {}, lit |-> <<>>]                   \* ^(.*?)(\.[\w]+)$
\* re.escape(text): the text itself, character by character
PatLiteral(text) == [kind |-> "literal", class |-> {}, lit |-> text]

\* The index of the last "." of s that starts a non-empty run of word
\* characters reaching the end of s; 0 if there is none.
ExtDot(s) ==
    LET dots == {i \in 1..(Len(s) - 1) :
                    s[i] = "." /\ \A j \in (i + 1)..Len(s) : s[j] \in WordChar}
    IN IF dots = {} THEN 0 ELSE CHOOSE i \in dots : \A j \in dots : j <= i

\* re.search(pattern, s) finds a match
ReSearch(pattern, s) ==
    CASE pattern.kind \in {"class_run", "class_char"} ->
             \E i \in 1..Len(s) : s[i] \in pattern.class
      [] pattern.kind = "whole" -> TRUE
      [] pattern.kind = "stem_ext" -> ExtDot(s) # 0
      [] pattern.kind = "literal" -> \E i \in 1..(Len(s) + 1) : OccursAt(pattern.lit, s, i)

\* re.sub of a character class: every character of the class (runs = FALSE)
\* or every maximal run of them (runs = TRUE) becomes e.
RECURSIVE SubClass(_, _, _, _)
SubClass(class, runs, e, s) ==
    IF s = <<>> THEN <<>>
    ELSE IF Head(s) \notin class THEN <<Head(s)>> \o SubClass(class, runs, e, Tail(s))
    ELSE IF runs /\ Len(s) >= 2 /\ s[2] \in class THEN SubClass(class, runs, e, Tail(s))
    ELSE e \o SubClass(class, runs, e, Tail(s))

\* re.sub of a literal: the occurrences from left to right, not overlapping;
\* the empty literal matches before every character and at the end.
RECURSIVE SubLiteral(_, _, _)
SubLiteral(lit, e, s) ==
    IF lit = <<>>
    THEN IF s = <<>> THEN e ELSE e \o <<Head(s)>> \o SubLiteral(lit, e, Tail(s))
    ELSE IF s = <<>> THEN <<>>
    ELSE IF OccursAt(lit, s, 1) THEN e \o SubLiteral(lit, e, SubSeq(s, Len(lit) + 1, Len(s)))
    ELSE <<Head(s)>> \o SubLiteral(lit, e, Tail(s))

\* re.sub(pattern, replacement, s), for an s the pattern matches
ReSub(pattern, replacement, s) ==
    CASE pattern.kind \in {"class_run", "class_char"} ->
             LET e == ExpandTemplate(replacement, <<>>)
             IN IF e.ok
                THEN Value(SubClass(pattern.class, pattern.kind = "class_run", e.val, s))
                ELSE Raised
      [] pattern.kind = "whole" -> ExpandTemplate(replacement, <<s>>)
      [] pattern.kind = "stem_ext" ->
             ExpandTemplate(replacement,
                            <<SubSeq(s, 1, ExtDot(s) - 1), SubSeq(s, ExtDot(s), Len(s))>>)
      [] pattern.kind = "literal" ->
             LET e == ExpandTemplate(replacement, <<>>)
             IN IF e.ok THEN Value(SubLiteral(pattern.lit, e.val, s)) ELSE Raised


(***************************************************************************)
(* The presets and the rule built from them                                *)
(***************************************************************************)

\* self.patterns: the names of the presets
Presets ==
    { "Replace Spaces with Underscores", "Replace Spaces with Hyphens",
      "Remove Numbers", "Remove Special Characters", "Extract Numbers Only",
      "Add Prefix", "Add Suffix Before Extension", "Remove Extra Spaces",
      "Convert to Lowercase", "Convert to Uppercase", "Camel Case",
      "Remove Text", "Replace Text" }

\* pattern_info.get("pattern", ""), for the presets that preview_changes
\* leaves to its last else
PresetPattern(selected) ==
    CASE selected = "Remove Special Characters" -> PatSpecialChar
      [] selected = "Extract Numbers Only" -> PatNonDigit
      [] selected = "Remove Extra Spaces" -> PatWhitespaceRun

\* BUILD PATTERN + REPLACEMENT: the transform mode, the pattern and the
\* replacement for the selected preset and the two text fields
BuildRule(selected, text, with) ==
    LET Regex(p, r) == [transform_mode |-> "none", pattern |-> p, replacement |-> r]
        Case(m) == [transform_mode |-> m, pattern |-> PatWhole, replacement |-> <<>>]
    IN CASE selected = "Remove Text" -> Regex(PatLiteral(Strip(text)), <<>>)
         [] selected = "Replace Text" -> Regex(PatLiteral(Strip(text)), Strip(with))
         [] selected = "Add Prefix" -> Regex(PatWhole, Strip(text) \o <<"\\", "1">>)
         [] selected = "Add Suffix Before Extension" ->
                Regex(PatStemExt, <<"\\", "1">> \o Strip(text) \o <<"\\", "2">>)
         [] selected = "Replace Spaces with Underscores" -> Regex(PatWhitespaceRun, <<"_">>)
         [] selected = "Replace Spaces with Hyphens" -> Regex(PatWhitespaceRun, <<"-">>)
         [] selected = "Remove Numbers" -> Regex(PatDigitRun, <<>>)
         [] selected = "Convert to Uppercase" -> Case("upper")
         [] selected = "Convert to Lowercase" -> Case("lower")
         [] selected = "Camel Case" -> Case("camel")
         [] OTHER -> Regex(PresetPattern(selected), <<>>)

(***************************************************************************)
(* The plan: a list of triples <<full_path, old_name, new_name>>           *)
(***************************************************************************)

\* is_valid_filename
is_valid_filename(filename) ==
    ~ \E i \in 1..Len(filename) : filename[i] \in ILLEGAL_CHARS_WIN

\* os.path.splitext(name) for a name without a separator: <<root, ext>>
SplitExt(name) ==
    LET dots == {i \in 1..Len(name) : name[i] = "."}
        dotIndex == IF dots = {} THEN 0 ELSE CHOOSE i \in dots : \A j \in dots : j <= i
    IN IF dotIndex # 0 /\ \E i \in 1..(dotIndex - 1) : name[i] # "."
       THEN <<SubSeq(name, 1, dotIndex - 1), SubSeq(name, dotIndex, Len(name))>>
       ELSE <<name, <<>>>>

\* The new name the case conversion gives old_name.
\* camel: " ".join(part.capitalize() for part in name.split())
CaseName(transform_mode, old_name) ==
    LET name == SplitExt(old_name)[1]
        ext == SplitExt(old_name)[2]
        parts == Split(name)
        new_stem == CASE transform_mode = "upper" -> Upper(name)
                      [] transform_mode = "lower" -> Lower(name)
                      [] transform_mode = "camel" ->
                             JoinSpace([i \in 1..Len(parts) |-> Capitalize(parts[i])])
    IN new_stem \o ext

\* APPLY CASE CONVERSION: the loop of preview_changes over the files
RECURSIVE CaseChanges(_, _)
CaseChanges(files, transform_mode) ==
    IF files = <<>> THEN <<>>
    ELSE LET full_path == Head(files)
             old_name == Basename(full_path)
             new_name == CaseName(transform_mode, old_name)
             rest == CaseChanges(Tail(files), transform_mode)
         IN IF new_name # old_name THEN <<<<full_path, old_name, new_name>>>> \o rest ELSE rest

\* apply_regex(files, pattern, replacement, flags) with flags = 0: the
\* changes, or Raised when re.sub raises re.error for the replacement
RECURSIVE apply_regex(_, _, _)
apply_regex(files, pattern, replacement) ==
    IF files = <<>> THEN Value(<<>>)
    ELSE LET full_path == Head(files)
             old_name == Basename(full_path)
             rest == apply_regex(Tail(files), pattern, replacement)
         IN IF ~ReSearch(pattern, old_name) THEN rest
            ELSE LET new_name == ReSub(pattern, replacement, old_name)
                 IN IF ~new_name.ok THEN Raised
                    ELSE IF ~is_valid_filename(new_name.val) THEN rest
                    ELSE IF new_name.val = old_name THEN rest
                    ELSE After(<<<<full_path, old_name, new_name.val>>>>, rest)

\* The target path of a triple: os.path.join(os.path.dirname(full_path), new_name)
Target(change) == Join(Dirname(change[1]), change[3])

\* new_names[key] of detect_collisions: the old names with that target, in plan order
RECURSIVE OldNamesFor(_, _)
OldNamesFor(changes, key) ==
    IF changes = <<>> THEN <<>>
    ELSE IF Target(Head(changes)) = key
         THEN <<Head(changes)[2]>> \o OldNamesFor(Tail(changes), key)
         ELSE OldNamesFor(Tail(changes), key)

\* A detect_collisions that reports a target only from three claimants on.
DetectCollisionsFromThree(changes) ==
    LET keys == {Target(changes[i]) : i \in 1..Len(changes)}
    IN [key \in {k \in keys : Len(OldNamesFor(changes, k)) > 2} |-> OldNamesFor(changes, key)]

\* detect_collisions(changes): a dict, here a function on its keys
detect_collisions(changes) ==
    LET keys == {Target(changes[i]) : i \in 1..Len(changes)}
    IN [key \in {k \in keys : Len(OldNamesFor(changes, k)) > 1} |-> OldNamesFor(changes, key)]

(***************************************************************************)
(* os.rename and the rollback log file                                     *)
(***************************************************************************)

\* f after the entry at src has moved to dst
Moved(f, src, dst) ==
    [p \in (DOMAIN f \ {src}) \cup {dst} |-> IF p = dst THEN f[src] ELSE f[p]]

\* The outcomes os.rename(src, dst) may have on f: [ok, fs].  It raises when
\* src is missing or locked, when dst names no file (an empty name) or a
\* directory; onto an existing file it replaces the file (POSIX) or raises
\* (Windows).
OsRename(f, src, dst) ==
    LET fail == [ok |-> FALSE, fs |-> f]
        done == [ok |-> TRUE, fs |-> Moved(f, src, dst)]
    IN IF src \notin DOMAIN f \/ f[src].locked \/ Basename(dst) = <<>> \/ IsDir(f, dst)
       THEN {fail}
       ELSE IF dst = src THEN {[ok |-> TRUE, fs |-> f]}
       ELSE IF dst \in DOMAIN f THEN {done, fail}
       ELSE {done}

(***************************************************************************)
(* Bounds and the values the events draw from                              *)
(***************************************************************************)

\* The handlers that may be on the stack at once.
MaxDepth == 2
\* The events the event loop may dispatch while one handler is suspended in
\* its calls of log_output.
MaxNested == 2
\* The batches the user may confirm in one run.
MaxBatches == 1

DirP == <<"p">>
DirQ == <<"q">>
\* What the user may put in the directory field: nothing, or one of two
\* directories.
DirTexts == {<<>>, DirP, DirQ}
\* What the user may type in the text field.
Texts == {<<"x">>, <<"1">>}
\* What the user may type in the replace-with field.
WithTexts == {<<"x">>}
\* The radio buttons the user may click.
ClickedPresets ==
    { "Replace Spaces with Underscores", "Replace Text", "Add Suffix Before Extension",
      "Extract Numbers Only", "Convert to Uppercase" }

File(c) == [kind |-> "file", content |-> c, locked |-> FALSE]
LockedFile(c) == [kind |-> "file", content |-> c, locked |-> TRUE]
Directory == [kind |-> "dir", content |-> 0, locked |-> FALSE]

\* The file system a run starts from: p holds a1.t, a1x.t and a
\* subdirectory s with a file; q holds a: (locked) and "b c".
InitialFileSystem ==
    <<DirP>> :> Directory
    @@ <<DirP, <<"a", "1", ".", "t">>>> :> File(1)
    @@ <<DirP, <<"a", "1", "x", ".", "t">>>> :> File(2)
    @@ <<DirP, <<"s">>>> :> Directory
    @@ <<DirP, <<"s">>, <<"c">>>> :> File(5)
    @@ <<DirQ>> :> Directory
    @@ <<DirQ, <<"a", ":">>>> :> LockedFile(3)
    @@ <<DirQ, <<"b", " ", "c">>>> :> File(4)

(***************************************************************************)
(* The state                                                               *)
(***************************************************************************)

VARIABLES
    fs,                  \* the file system: path -> [kind, content, locked]
    dir_var,             \* self.dir_var
    pattern_var,         \* self.pattern_var
    replacement_var,     \* self.replacement_var
    replace_with_var,    \* self.replace_with_var
    current_changes,     \* self.current_changes
    current_collisions,  \* self.current_collisions
    rename_button,       \* the state of self.rename_button
    rename_log,          \* self.rename_log
    dialog,              \* the message box the last step showed, or "none"
    stack,               \* the handlers that have started and not returned
    batches,             \* the batches confirmed so far
    probe                \* the argument and result of the function under test

gui == <<dir_var, pattern_var, replacement_var, replace_with_var>>
plan == <<current_changes, current_collisions, rename_button>>
vars == <<fs, dir_var, pattern_var, replacement_var, replace_with_var,
          current_changes, current_collisions, rename_button, rename_log,
          dialog, stack, batches, probe>>

\* A dict without keys.
EmptyDict == <<>>

\* The rollback log file of a batch that has not written one.
NoLogFile == [status |-> "none", dir_path |-> <<>>, entries |-> <<>>]

\* The locals of a handler that has not set them yet.  calls, logged and
\* log_file record what a batch has done: its os.rename calls with their
\* outcome, the entries it has appended to rename_log, and the rollback log
\* file it has written (status "failed" when open() raised).  events counts the
\* events dispatched while the handler was suspended.
NoFrame ==
    [h |-> "none", pc |-> "none", selected_pattern |-> "", text |-> <<>>, with |-> <<>>,
     files |-> <<>>, changes |-> <<>>, i |-> 0, ok |-> FALSE,
     success_count |-> 0, fail_count |-> 0,
     calls |-> <<>>, logged |-> 0, log_file |-> NoLogFile, events |-> 0]

Top == stack[Len(stack)]
Pop == SubSeq(stack, 1, Len(stack) - 1)
Resume(frame) == [stack EXCEPT ![Len(stack)] = frame]

\* The event loop is taking events: in mainloop, or in the root.update() of
\* the log_output the top handler is in.
Dispatching ==
    IF stack = <<>> THEN TRUE ELSE Len(stack) < MaxDepth /\ Top.events < MaxNested

\* The stack once the event loop has taken an event: the suspended handler
\* has one more event dispatched under it.
Handled ==
    IF stack = <<>> THEN stack ELSE Resume([Top EXCEPT !.events = @ + 1])

\* The object after __init__, before the first event.
Constructed ==
    /\ dir_var = <<>>
    /\ pattern_var = "Replace Spaces with Underscores"
    /\ replacement_var = <<>>
    /\ replace_with_var = <<>>
    /\ current_changes = <<>>
    /\ current_collisions = EmptyDict
    /\ rename_button = "disabled"
    /\ rename_log = <<>>
    /\ dialog = "none"
    /\ stack = <<>>
    /\ batches = 0

Init ==
    /\ fs = InitialFileSystem
    /\ Constructed
    /\ probe = <<>>

(***************************************************************************)
(* The handlers that return before they log anything                       *)
(***************************************************************************)

\* invalidate_preview
invalidate_preview ==
    /\ rename_button' = "disabled"
    /\ current_changes' = <<>>
    /\ current_collisions' = EmptyDict

\* The user edits the directory field: the write trace of dir_var.
WriteDir ==
    /\ Dispatching
    /\ \E v \in DirTexts : dir_var' = v
    /\ invalidate_preview
    /\ dialog' = "none"
    /\ stack' = Handled
    /\ UNCHANGED <<pattern_var, replacement_var, replace_with_var, rename_log,
                   batches, fs, probe>>

\* browse_directory: askdirectory returns a path, or "" when cancelled
browse_directory ==
    /\ Dispatching
    /\ \E dir_path \in DirTexts :
          IF dir_path # <<>>
          THEN dir_var' = dir_path /\ invalidate_preview
          ELSE UNCHANGED <<dir_var, plan>>
    /\ dialog' = "none"
    /\ stack' = Handled
    /\ UNCHANGED <<pattern_var, replacement_var, replace_with_var, rename_log,
                   batches, fs, probe>>

\* The presets for which on_pattern_selected shows the text entry.
TextPresets == {"Remove Text", "Replace Text", "Add Prefix", "Add Suffix Before Extension"}

\* The user edits the text field (shown for the presets that take a text).
WriteReplacement ==
    /\ Dispatching
    /\ pattern_var \in TextPresets
    /\ \E v \in Texts : replacement_var' = v
    /\ invalidate_preview
    /\ dialog' = "none"
    /\ stack' = Handled
    /\ UNCHANGED <<dir_var, pattern_var, replace_with_var, rename_log,
                   batches, fs, probe>>

\* The user edits the replace-with field (shown for Replace Text).
WriteReplaceWith ==
    /\ Dispatching
    /\ pattern_var = "Replace Text"
    /\ \E v \in WithTexts : replace_with_var' = v
    /\ invalidate_preview
    /\ dialog' = "none"
    /\ stack' = Handled
    /\ UNCHANGED <<dir_var, pattern_var, replacement_var, rename_log,
                   batches, fs, probe>>

\* on_pattern_selected, after the radio button has set pattern_var
on_pattern_selected ==
    /\ Dispatching
    /\ \E selected \in ClickedPresets :
          /\ pattern_var' = selected
          /\ replacement_var' = IF selected \in TextPresets THEN <<>> ELSE replacement_var
          /\ replace_with_var' = IF selected = "Replace Text" THEN <<>> ELSE replace_with_var
    /\ invalidate_preview
    /\ dialog' = "none"
    /\ stack' = Handled
    /\ UNCHANGED <<dir_var, rename_log, batches, fs, probe>>

\* clear_output, from its button: the output area is not part of the state
clear_output ==
    /\ Dispatching
    /\ dialog' = "none"
    /\ stack' = Handled
    /\ UNCHANGED <<gui, plan, rename_log, batches, fs, probe>>

(***************************************************************************)
(* preview_changes                                                         *)
(***************************************************************************)

\* From the click to the first log_output, or to the return after the
\* error box: the directory is validated, the fields are read, the files
\* are collected.
PreviewStart ==
    /\ Dispatching
    /\ LET dir_path == Strip(dir_var)
       IN IF dir_path = <<>> \/ ~IsDir(fs, <<dir_path>>)
          THEN /\ dialog' = "invalid_directory"
               /\ stack' = Handled
          ELSE \E listing \in Orders(Entries(fs, <<dir_path>>)) :
                  LET files == CollectFiles(fs, <<dir_path>>, listing, FALSE)
                  IN /\ stack' = Append(Handled,
                            [NoFrame EXCEPT !.h = "preview",
                                            !.pc = IF files = <<>> THEN "no_files" ELSE "found",
                                            !.selected_pattern = pattern_var,
                                            !.text = replacement_var,
                                            !.with = replace_with_var,
                                            !.files = files])
                     /\ dialog' = "none"
    /\ UNCHANGED <<gui, plan, rename_log, batches, fs, probe>>

\* The Replace Spaces special case: no file name holds a " ".
NoSpaces(selected_pattern, files) ==
    /\ selected_pattern \in {"Replace Spaces with Underscores", "Replace Spaces with Hyphens"}
    /\ ~ \E i \in 1..Len(files) :
            \E j \in 1..Len(Basename(files[i])) : Basename(files[i])[j] = " "

\* The plan preview_changes computes for the files: CaseChanges or apply_regex.
PlanFor(selected_pattern, text, with, files) ==
    LET rule == BuildRule(selected_pattern, text, with)
    IN IF rule.transform_mode = "none"
       THEN apply_regex(files, rule.pattern, rule.replacement)
       ELSE Value(CaseChanges(files, rule.transform_mode))

\* From "Found n file(s)" to the next log_output: the plan is computed and
\* stored, then the collisions.  re.error from re.sub ends the handler.
PreviewApply ==
    /\ stack # <<>> /\ Top.h = "preview" /\ Top.pc = "found"
    /\ LET changes == PlanFor(Top.selected_pattern, Top.text, Top.with, Top.files)
           regex == BuildRule(Top.selected_pattern, Top.text, Top.with).transform_mode = "none"
           At(pc) == Resume([NoFrame EXCEPT !.h = "preview", !.pc = pc,
                                            !.events = Top.events])
       IN IF ~changes.ok
          THEN /\ stack' = Pop
               /\ UNCHANGED <<current_changes, current_collisions>>
          ELSE /\ current_changes' = changes.val
               /\ IF regex /\ NoSpaces(Top.selected_pattern, Top.files)
                  THEN stack' = At("no_spaces") /\ UNCHANGED current_collisions
                  ELSE IF changes.val = <<>>
                  THEN stack' = At("no_changes") /\ UNCHANGED current_collisions
                  ELSE /\ current_collisions' = detect_collisions(changes.val)
                       /\ stack' = At(IF DOMAIN detect_collisions(changes.val) # {}
                                      THEN "collisions" ELSE "display")
    /\ dialog' = "none"
    /\ UNCHANGED <<gui, rename_button, rename_log, batches, fs, probe>>

\* After the messages of a preview that found nothing to rename, or
\* collisions: the button is disabled and the handler returns.
PreviewStopped ==
    /\ stack # <<>> /\ Top.h = "preview"
    /\ Top.pc \in {"no_files", "no_spaces", "no_changes", "collisions"}
    /\ rename_button' = "disabled"
    /\ stack' = Pop
    /\ dialog' = "none"
    /\ UNCHANGED <<gui, current_changes, current_collisions, rename_log, batches, fs, probe>>

\* A preview that already logs the first rename it displays.
PreviewDisplayedLogging ==
    /\ stack # <<>> /\ Top.h = "preview" /\ Top.pc = "display"
    /\ rename_button' = "normal"
    /\ rename_log' = IF current_changes = <<>> THEN rename_log
                     ELSE Append(rename_log, [old_name |-> current_changes[1][2],
                                              new_name |-> current_changes[1][3],
                                              timestamp |-> Len(rename_log)])
    /\ stack' = Pop
    /\ dialog' = "none"
    /\ UNCHANGED <<gui, current_changes, current_collisions, batches, fs, probe>>

\* After the lines of the preview: the button is enabled and the handler returns.
PreviewDisplayed ==
    /\ stack # <<>> /\ Top.h = "preview" /\ Top.pc = "display"
    /\ rename_button' = "normal"
    /\ stack' = Pop
    /\ dialog' = "none"
    /\ UNCHANGED <<gui, current_changes, current_collisions, rename_log, batches, fs, probe>>

(***************************************************************************)
(* rename_files                                                            *)
(***************************************************************************)

\* From the click on the enabled button to the return after a message box,
\* or to the first log_output of a confirmed batch; limit bounds the batches
\* the user confirms.
RenameStartWithin(limit) ==
    /\ Dispatching
    /\ rename_button = "normal"
    /\ IF current_changes = <<>>
       THEN dialog' = "preview_first" /\ stack' = Handled /\ UNCHANGED batches
       ELSE IF DOMAIN current_collisions # {}
       THEN dialog' = "collisions_detected" /\ stack' = Handled /\ UNCHANGED batches
       ELSE \/ dialog' = "confirm_no" /\ stack' = Handled /\ UNCHANGED batches
            \/ /\ batches < limit
               /\ batches' = batches + 1
               /\ dialog' = "confirm_yes"
               /\ stack' = Append(Handled, [NoFrame EXCEPT !.h = "rename", !.pc = "renaming"])
    /\ UNCHANGED <<gui, plan, rename_log, fs, probe>>

\* rename_files in a run of at most MaxBatches confirmed batches
RenameStart == RenameStartWithin(MaxBatches)

\* The entry for triple i of changes; datetime.now() is the number of
\* entries appended before.
LogEntry(log, changes, i) ==
    [old_name |-> changes[i][2], new_name |-> changes[i][3], timestamp |-> Len(log)]

\* A loop that appends an entry for every triple it has tried.
LoggedAnyOutcome(log, frame, changes) ==
    IF frame.pc = "renamed" THEN Append(log, LogEntry(log, changes, frame.i)) ELSE log

\* rename_log after what follows os.rename for the triple the loop is at:
\* the entry after the log_output of a success, nothing in the except clause.
Logged(log, frame, changes) ==
    IF frame.pc = "renamed" /\ frame.ok
    THEN Append(log, LogEntry(log, changes, frame.i))
    ELSE log

\* A loop that gives up at the first os.rename that raises.
LoopDoneAtFailure(frame, changes) ==
    frame.i = Len(changes) \/ (frame.pc = "renamed" /\ ~frame.ok)

\* The for loop has no triple left: the except clause does not leave it.
LoopDone(frame, changes) == frame.i = Len(changes)

\* One turn of the loop, from one log_output to the next: the entry and the
\* count for the triple just logged, then os.rename for the next triple of
\* the list the loop iterates over, or the summary after the last.
RenameStep ==
    /\ stack # <<>> /\ Top.h = "rename" /\ Top.pc \in {"renaming", "renamed"}
    /\ LET changes == IF Top.pc = "renaming" THEN current_changes ELSE Top.changes
           succeeded == Top.pc = "renamed" /\ Top.ok
           failed == Top.pc = "renamed" /\ ~Top.ok
           counted == [Top EXCEPT !.changes = changes,
                                  !.success_count = @ + (IF succeeded THEN 1 ELSE 0),
                                  !.fail_count = @ + (IF failed THEN 1 ELSE 0),
                                  !.logged = @ + Len(Logged(rename_log, Top, changes))
                                                 - Len(rename_log)]
       IN /\ rename_log' = Logged(rename_log, Top, changes)
          /\ IF LoopDone(Top, changes)
             THEN /\ stack' = Resume([counted EXCEPT !.pc = "summary"])
                  /\ UNCHANGED fs
             ELSE LET full_path == changes[Top.i + 1][1]
                      new_path == Target(changes[Top.i + 1])
                  IN \E r \in OsRename(fs, full_path, new_path) :
                        /\ fs' = r.fs
                        /\ stack' = Resume(
                               [counted EXCEPT
                                   !.pc = "renamed", !.i = @ + 1, !.ok = r.ok,
                                   !.calls = Append(@, [src |-> full_path, dst |-> new_path,
                                                        ok |-> r.ok])])
    /\ dialog' = "none"
    /\ UNCHANGED <<gui, plan, batches, probe>>

\* The end of rename_files: the message box, then the reset.
RenameReset(frame) ==
    /\ dialog' = IF frame.fail_count = 0 THEN "complete" ELSE "finished"
    /\ current_changes' = <<>>
    /\ current_collisions' = EmptyDict
    /\ rename_button' = "disabled"
    /\ stack' = Pop

\* A batch that saves its log where the directory field points.
FieldDir(frame) == <<Strip(dir_var)>>

\* dir_path after the loop: the directory of the last triple
BatchDir(frame) == Dirname(frame.changes[Len(frame.changes)][1])

\* The name of the log file: .rename_log_<timestamp>.json, shortened.
LogName == <<".", "l", "_", "0", ".", "j">>

\* save_rollback_log(dir_path), up to its log_output: open() writes the
\* file, or raises, which is caught; written says which.
save_rollback_log(dir_path, written) ==
    IF written /\ IsDir(fs, dir_path)
    THEN /\ fs' = Join(dir_path, LogName) :> File(0) @@ fs
         /\ stack' = Resume([Top EXCEPT !.pc = "saved",
                                        !.log_file = [status |-> "written",
                                                      dir_path |-> dir_path,
                                                      entries |-> rename_log]])
    ELSE /\ fs' = fs
         /\ stack' = Resume([Top EXCEPT !.pc = "saved",
                                        !.log_file = [NoLogFile EXCEPT !.status = "failed"]])

\* After the summary: save_rollback_log(dir_path) when a rename succeeded;
\* else the end of the handler.
RenameSummary ==
    /\ stack # <<>> /\ Top.h = "rename" /\ Top.pc = "summary"
    /\ IF Top.success_count > 0
       THEN /\ \E written \in BOOLEAN : save_rollback_log(BatchDir(Top), written)
            /\ dialog' = "none"
            /\ UNCHANGED plan
       ELSE RenameReset(Top) /\ UNCHANGED fs
    /\ UNCHANGED <<gui, rename_log, batches, probe>>

\* After the message of save_rollback_log: the end of the handler.
RenameSaved ==
    /\ stack # <<>> /\ Top.h = "rename" /\ Top.pc = "saved"
    /\ RenameReset(Top)
    /\ UNCHANGED <<gui, rename_log, batches, fs, probe>>

Next ==
    \/ WriteDir
    \/ browse_directory
    \/ WriteReplacement
    \/ WriteReplaceWith
    \/ on_pattern_selected
    \/ clear_output
    \/ PreviewStart
    \/ PreviewApply
    \/ PreviewStopped
    \/ PreviewDisplayed
    \/ RenameStart
    \/ RenameStep
    \/ RenameSummary
    \/ RenameSaved

Spec == Init /\ [][Next]_vars

(***************************************************************************)
(* A session of several batches                                            *)
(***************************************************************************)

\* The batches the user may confirm in a session.
MaxSessionBatches == 2

\* A session in which the user writes the directory field, selects presets,
\* previews and renames, and confirms up to MaxSessionBatches batches.
NextSession ==
    \/ WriteDir
    \/ on_pattern_selected
    \/ PreviewStart
    \/ PreviewApply
    \/ PreviewStopped
    \/ PreviewDisplayed
    \/ RenameStartWithin(MaxSessionBatches)
    \/ RenameStep
    \/ RenameSummary
    \/ RenameSaved

SpecSession == Init /\ [][NextSession]_vars

(***************************************************************************)
(* detect_collisions on its own                                            *)
(***************************************************************************)

\* The longest plan detect_collisions is called with.
MaxPlan == 3

\* The triples of those plans: files a and b of p and file a of q, each to
\* become x or y.
PlanPaths == {<<DirP, <<"a">>>>, <<DirP, <<"b">>>>, <<DirQ, <<"a">>>>}
PlanNames == {<<"x">>, <<"y">>}
Triples == {<<p, Basename(p), n>> : p \in PlanPaths, n \in PlanNames}
Plans == UNION {[1..n -> Triples] : n \in 0..MaxPlan}

InitDetect ==
    /\ fs = InitialFileSystem
    /\ Constructed
    /\ probe \in {[changes |-> c, result |-> EmptyDict, done |-> FALSE] : c \in Plans}

\* The call detect_collisions(changes)
CallDetectCollisions ==
    /\ ~probe.done
    /\ probe' = [probe EXCEPT !.result = detect_collisions(probe.changes), !.done = TRUE]
    /\ UNCHANGED <<fs, gui, plan, rename_log, dialog, stack, batches>>

NextDetect == CallDetectCollisions

SpecDetect == InitDetect /\ [][NextDetect]_vars

(***************************************************************************)
(* collect_files on its own                                                *)
(***************************************************************************)

\* The file systems collect_files is called on: the initial one without
\* some of its files.
CollectFileSystems ==
    LET files == {p \in DOMAIN InitialFileSystem : InitialFileSystem[p].kind = "file"}
    IN {[p \in DOMAIN InitialFileSystem \ gone |-> InitialFileSystem[p]] :
            gone \in SUBSET files}

InitCollect ==
    /\ fs \in CollectFileSystems
    /\ Constructed
    /\ \E d \in {p \in DOMAIN fs : fs[p].kind = "dir"}, r \in BOOLEAN :
          \E l \in Orders(Entries(fs, d)) :
             probe = [dir_path |-> d, listing |-> l, recursive |-> r,
                      result |-> <<>>, done |-> FALSE]

\* The call collect_files(dir_path, recursive)
CallCollectFiles ==
    /\ ~probe.done
    /\ probe' = [probe EXCEPT
                    !.result = CollectFiles(fs, probe.dir_path, probe.listing, probe.recursive),
                    !.done = TRUE]
    /\ UNCHANGED <<fs, gui, plan, rename_log, dialog, stack, batches>>

NextCollect == CallCollectFiles

SpecCollect == InitCollect /\ [][NextCollect]_vars

(***************************************************************************)
(* The Add Suffix Before Extension preset on its own                       *)
(***************************************************************************)

\* The longest suffix text typed.
MaxSuffix == 2

\* The suffix texts: the non-empty texts of up to MaxSuffix characters out
\* of a letter, a digit, the hyphen and the underscore.
SuffixChars == {"x", "1", "-", "_"}
SuffixTexts == UNION {[1..n -> SuffixChars] : n \in 1..MaxSuffix}

\* The file names stem.ext: a stem (empty, plain, with a dot, with a space)
\* and an extension of word characters.
Stems == {<<>>, <<"a">>, <<"a", ".", "b">>, <<"a", " ", "b">>}
Exts == {<<".", "t">>, <<".", "t", "1">>, <<".", "_">>}

InitSuffix ==
    /\ fs = InitialFileSystem
    /\ Constructed
    /\ probe \in {[stem |-> st, ext |-> e, text |-> t, result |-> Raised, done |-> FALSE] :
                     st \in Stems, e \in Exts, t \in SuffixTexts}

\* preview_changes for one file of directory p, from the rule it builds for
\* the preset to the plan of apply_regex, or to the re.error that ends it
PreviewSuffix ==
    /\ ~probe.done
    /\ probe' = [probe EXCEPT
                    !.result = PlanFor("Add Suffix Before Extension", probe.text, <<>>,
                                       <<Join(DirP, probe.stem \o probe.ext)>>),
                    !.done = TRUE]
    /\ UNCHANGED <<fs, gui, plan, rename_log, dialog, stack, batches>>

NextSuffix == PreviewSuffix

SpecSuffix == InitSuffix /\ [][NextSuffix]_vars

(***************************************************************************)
(* The claims                                                              *)
(***************************************************************************)

\* The frames of the batches that have started and not returned.
Batches == {stack[k] : k \in {n \in 1..Len(stack) : stack[n].h = "rename"}}

\* The targets of a plan are pairwise different.
DistinctTargets(changes) ==
    \A i, j \in 1..Len(changes) : i # j => Target(changes[i]) # Target(changes[j])

\* C1: rename_files calls os.rename only for a plan in which no two triples
\* have the same target path: every batch that has called os.rename is
\* going through a plan whose targets are pairwise different.
C1_BatchPlanHasDistinctTargets ==
    \A b \in Batches : b.calls # <<>> => DistinctTargets(b.changes)

\* C2: whenever the Rename button is enabled, current_changes is non-empty
\* and current_collisions is empty.
C2_EnabledButtonHasCheckedPlan ==
    rename_button = "normal" =>
        current_changes # <<>> /\ DOMAIN current_collisions = {}

\* C3: detect_collisions returns a mapping whose keys are exactly the
\* target paths that two or more triples share, each mapped to the old
\* names of the triples with that target, in plan order.
C3_CollisionsAreTheSharedTargets ==
    probe.done =>
        LET changes == probe.changes
            result == probe.result
            Claimants(t) == {i \in 1..Len(changes) : Target(changes[i]) = t}
            Nth(t, n) == CHOOSE i \in Claimants(t) :
                            Cardinality({j \in Claimants(t) : j <= i}) = n
            shared == {t \in {Target(changes[i]) : i \in 1..Len(changes)} :
                          Cardinality(Claimants(t)) >= 2}
        IN /\ DOMAIN result = shared
           /\ \A t \in shared :
                 /\ Len(result[t]) = Cardinality(Claimants(t))
                 /\ \A n \in 1..Len(result[t]) : result[t][n] = changes[Nth(t, n)][2]

\* A call on a plan where one target is shared and another is not.
C3_SharedAndSingleTarget ==
    /\ probe.done
    /\ DOMAIN probe.result # {}
    /\ \E i \in 1..Len(probe.changes) : Target(probe.changes[i]) \notin DOMAIN probe.result

\* C4: every triple of current_changes has a new name that differs from the
\* old name and holds none of the illegal characters.
C4_PlannedNamesChangedAndLegal ==
    \A i \in 1..Len(current_changes) :
        /\ current_changes[i][3] # current_changes[i][2]
        /\ is_valid_filename(current_changes[i][3])

\* C5: from the start of preview_changes or rename_files to its return no
\* other event handler runs: no handler on the stack has had an event
\* dispatched under it.
C5_NoEventInsideHandler ==
    \A k \in 1..Len(stack) : stack[k].events = 0

\* A step of preview_changes: it starts (or returns at once after the error
\* box), or the preview on top of the stack goes on or returns.
PreviewStep ==
    \/ Len(stack') = Len(stack) + 1 /\ stack'[Len(stack')].h = "preview"
    \/ dialog' = "invalid_directory"
    \/ /\ stack # <<>> /\ Top.h = "preview"
       /\ \/ Len(stack') = Len(stack) - 1
          \/ Len(stack') = Len(stack) /\ stack'[Len(stack)].pc # Top.pc

\* C6: no step of preview_changes renames, creates or deletes a file,
\* appends to rename_log or writes an input field.
C6_PreviewLeavesFilesAndLog ==
    [][PreviewStep => UNCHANGED <<fs, rename_log, gui>>]_vars

\* A preview has returned with a plan shown and the button enabled.
C6_PreviewShown ==
    /\ stack = <<>>
    /\ rename_button = "normal"
    /\ current_changes # <<>>
    /\ batches = 0

\* The os.rename calls of batch b that its loop has counted so far.
CountedCalls(b) ==
    SubSeq(b.calls, 1, IF b.pc = "renamed" THEN Len(b.calls) - 1 ELSE Len(b.calls))

Successes(calls) == Cardinality({n \in 1..Len(calls) : calls[n].ok})

\* C7, the counts: the entries a batch has appended are as many as its
\* success count, which is the number of its os.rename calls that succeeded.
C7_Counts ==
    \A b \in Batches :
        /\ b.logged = b.success_count
        /\ b.success_count = Successes(CountedCalls(b))

\* C7, the entries: rename_log changes only by one entry appended by the
\* batch whose last os.rename succeeded, and the entry names that rename.
C7_Appends ==
    rename_log' # rename_log =>
        /\ stack # <<>> /\ Top.h = "rename" /\ Top.pc = "renamed" /\ Top.ok
        /\ Len(rename_log') = Len(rename_log) + 1
        /\ SubSeq(rename_log', 1, Len(rename_log)) = rename_log
        /\ LET entry == rename_log'[Len(rename_log')]
               call == Top.calls[Len(Top.calls)]
           IN /\ entry.old_name = Basename(call.src)
              /\ entry.new_name = Basename(call.dst)

\* C7: during a batch each os.rename that succeeds appends exactly one entry
\* to rename_log and each that fails appends none.
C7_EntryPerSuccessfulRename == []C7_Counts /\ [][C7_Appends]_vars

\* A batch is at its summary after a rename that succeeded and one that failed.
C7_MixedBatch ==
    /\ stack # <<>> /\ Top.h = "rename" /\ Top.pc = "summary"
    /\ Top.success_count > 0
    /\ Top.fail_count > 0

\* C8: a batch calls os.rename for the triples of its plan, once each and
\* in plan order, whatever the outcomes, and makes no other os.rename call;
\* after the loop success count + fail count is the length of the plan.
C8_EveryTripleAttemptedOnce ==
    \A b \in Batches :
        /\ Len(b.calls) = b.i
        /\ \A n \in 1..Len(b.calls) :
              /\ b.calls[n].src = b.changes[n][1]
              /\ b.calls[n].dst = Target(b.changes[n])
        /\ b.pc \in {"summary", "saved"} =>
              /\ Len(b.calls) = Len(b.changes)
              /\ b.success_count + b.fail_count = Len(b.changes)
              /\ b.success_count = Successes(b.calls)

\* A batch has finished its loop after a first os.rename that raised and a
\* second that succeeded.
C8_ContinuedAfterFailure ==
    /\ stack # <<>> /\ Top.h = "rename" /\ Top.pc = "summary"
    /\ Len(Top.calls) >= 2
    /\ ~Top.calls[1].ok
    /\ Top.calls[2].ok

\* C9, the log file: a batch has tried to write its log file exactly when
\* it is past save_rollback_log, where its success count is positive; a
\* file that was written is in the directory of the renames of the batch.
C9_LogFile ==
    \A b \in Batches :
        /\ b.pc = "saved" => b.success_count > 0 /\ b.log_file.status \in {"written", "failed"}
        /\ b.pc # "saved" => b.log_file.status = "none"
        /\ b.log_file.status = "written" =>
              \A n \in 1..Len(b.calls) :
                  /\ Dirname(b.calls[n].src) = b.log_file.dir_path
                  /\ Dirname(b.calls[n].dst) = b.log_file.dir_path

\* C9, the end of the batch: a write that failed leaves the file system as
\* it was; the batch returns past save_rollback_log exactly when a rename
\* succeeded, and returns with the plan, the collisions and the button reset.
C9_End ==
    stack # <<>> /\ Top.h = "rename" =>
        /\ (Len(stack') = Len(stack) /\ Top.pc = "summary"
              /\ stack'[Len(stack)].log_file.status = "failed") => fs' = fs
        /\ Len(stack') = Len(stack) - 1 =>
              /\ Top.pc = "saved" <=> Top.success_count > 0
              /\ current_changes' = <<>>
              /\ DOMAIN current_collisions' = {}
              /\ rename_button' = "disabled"
              /\ fs' = fs

\* C9: a rollback log file is written into the directory of the batch iff a
\* rename of the batch succeeded; a failure to write it leaves the renames
\* in place and does not prevent the reset.
C9_LogIffSuccessAndReset == []C9_LogFile /\ [][C9_End]_vars

\* A batch with a successful rename is past a save_rollback_log that could
\* not write the file.
C9_WriteFailed ==
    /\ stack # <<>> /\ Top.h = "rename" /\ Top.pc = "saved"
    /\ Top.log_file.status = "failed"
    /\ Top.success_count > 0

\* C10: collect_files returns exactly the full paths of the regular files
\* that are direct children of the directory, in ascending order without
\* duplicates, whatever recursive is.
C10_DirectFilesSorted ==
    probe.done =>
        LET d == probe.dir_path
            result == probe.result
            direct == {Join(d, n) : n \in {m \in Entries(fs, d) : IsFile(fs, Join(d, m))}}
        IN /\ {result[i] : i \in 1..Len(result)} = direct
           /\ \A i \in 1..(Len(result) - 1) : PathLess(result[i], result[i + 1])
           /\ \A r \in BOOLEAN : CollectFiles(fs, d, probe.listing, r) = result

\* A recursive call on a directory that holds two files and, listed before
\* them, a subdirectory with a file.
C10_RecursiveWithSubdirectory ==
    /\ probe.done
    /\ probe.recursive
    /\ Len(probe.result) >= 2
    /\ IsDir(fs, Join(probe.dir_path, probe.listing[1]))
    /\ \E p \in DOMAIN fs : /\ Len(p) = Len(probe.dir_path) + 2
                            /\ SubSeq(p, 1, Len(probe.dir_path)) = probe.dir_path
                            /\ fs[p].kind = "file"

\* The paths a plan renames.
Sources(changes) == {changes[n][1] : n \in 1..Len(changes)}

\* C11: while a batch goes through a plan whose targets are pairwise
\* different, every file the run started with that is not a source of the
\* plan is still there under its name with its own content.  (One batch: the
\* files before the batch are the files the run started with.)
C11_OtherFilesKept ==
    \A b \in Batches :
        (batches = 1 /\ DistinctTargets(b.changes)) =>
            \A p \in DOMAIN InitialFileSystem \ Sources(b.changes) :
                InitialFileSystem[p].kind = "file" =>
                    p \in DOMAIN fs /\ fs[p] = InitialFileSystem[p]

\* A batch that no event has interrupted, for a plan previewed without
\* interruption, has renamed a1x.t onto a1.t, which its plan does not rename.
C11_ReplacedOtherFile ==
    /\ Len(stack) = 1 /\ Top.h = "rename" /\ Top.events = 0
    /\ Len(Top.changes) = 1
    /\ Top.changes[1][1] = <<DirP, <<"a", "1", "x", ".", "t">>>>
    /\ Top.changes[1][3] = <<"a", "1", ".", "t">>
    /\ Top.calls # <<>> /\ Top.calls[1].ok
    /\ fs[<<DirP, <<"a", "1", ".", "t">>>>].content = 2

\* f after all the files of the plan have been renamed at once: the sources
\* are gone and each target holds what its source held.
RenamedAtOnce(f, changes) ==
    LET targets == {Target(changes[n]) : n \in 1..Len(changes)}
        SourceOf(t) == CHOOSE n \in 1..Len(changes) : Target(changes[n]) = t
    IN [p \in (DOMAIN f \ Sources(changes)) \cup targets |->
           IF p \in targets THEN f[changes[SourceOf(p)][1]] ELSE f[p]]

\* A new name of the plan is the old name of another triple of the plan.
Chained(changes) ==
    \E m, n \in 1..Len(changes) : m # n /\ Target(changes[m]) = changes[n][1]

\* C12: when a batch has gone through a plan whose targets are pairwise
\* different and in which a new name is the old name of another triple, the
\* files are those a rename of all planned files at once leaves: each
\* planned content under its planned new name, as many files as before.
C12_ChainedPlanAsAtOnce ==
    \A b \in Batches :
        (/\ batches = 1 /\ b.pc = "summary"
         /\ DistinctTargets(b.changes) /\ Chained(b.changes)
         /\ Sources(b.changes) \subseteq DOMAIN InitialFileSystem) =>
            fs = RenamedAtOnce(InitialFileSystem, b.changes)

\* A batch that no event has interrupted has gone through the plan
\* a1.t -> a1x.t, a1x.t -> a1xx.t without a failure, and one file is left.
C12_ChainLostAFile ==
    /\ Len(stack) = 1 /\ Top.h = "rename" /\ Top.pc = "summary" /\ Top.events = 0
    /\ Len(Top.changes) = 2
    /\ Target(Top.changes[1]) = Top.changes[2][1]
    /\ Top.fail_count = 0
    /\ Cardinality({p \in DOMAIN fs : Len(p) = 2 /\ Dirname(p) = DirP
                                       /\ fs[p].kind = "file"}) = 1

\* The plan a preview computes from the fields as they are now, over the
\* files of f; empty when the preview stops before it has one.
PlanOfFields(f) ==
    LET dir_path == Strip(dir_var)
    IN IF dir_path = <<>> \/ ~IsDir(f, <<dir_path>>) THEN <<>>
       ELSE LET listing == CHOOSE l \in Orders(Entries(f, <<dir_path>>)) : TRUE
                files == CollectFiles(f, <<dir_path>>, listing, FALSE)
                changes == PlanFor(pattern_var, replacement_var, replace_with_var, files)
            IN IF changes.ok THEN changes.val ELSE <<>>

\* C13, the handlers: a step that changes the directory field, the text
\* field, the replace-with field or the selected preset leaves the button
\* disabled and current_changes and current_collisions empty.
C13_WritesInvalidate ==
    [][gui' # gui => /\ rename_button' = "disabled"
                     /\ current_changes' = <<>>
                     /\ DOMAIN current_collisions' = {}]_vars

\* C13: a plan previewed under older inputs is never executed after an
\* input changed: a batch that has called os.rename is going through the
\* plan of the fields as they are now.  (One batch: the files it was
\* previewed over are the files the run started with.)
C13_ExecutedPlanIsOfCurrentInputs ==
    \A b \in Batches :
        (batches = 1 /\ b.calls # <<>>) => b.changes = PlanOfFields(InitialFileSystem)

\* A batch that no event has interrupted renames a1.t to A1.t, the plan of
\* Convert to Uppercase, while another preset is selected.
C13_ExecutedUnderOtherPreset ==
    /\ Len(stack) = 1 /\ Top.h = "rename" /\ Top.events = 0
    /\ Top.calls # <<>>
    /\ Top.changes[1][3] = <<"A", "1", ".", "t">>
    /\ pattern_var # "Convert to Uppercase"

\* C14: a previewed plan is executed at most once: when the only event
\* dispatched inside a batch that has called os.rename is a click on Rename,
\* the batch that click starts, for the same plan without a preview in
\* between, calls os.rename for none of its triples.
C14_NoSecondPass ==
    \A k \in 1..(Len(stack) - 1) :
        (/\ stack[k].h = "rename" /\ stack[k + 1].h = "rename"
         /\ stack[k].events = 1
         /\ stack[k].calls # <<>>) =>
            stack[k + 1].calls = <<>>

\* Inside a batch that has renamed the first file of its plan, a second
\* batch, started by the next event, has called os.rename for the first
\* triple of the same plan.
C14_SecondPassBegun ==
    /\ Len(stack) = 2
    /\ stack[1].h = "rename" /\ stack[2].h = "rename"
    /\ stack[1].events = 1
    /\ stack[1].calls # <<>> /\ stack[1].calls[1].ok
    /\ stack[2].changes = stack[1].changes
    /\ stack[2].calls # <<>>
    /\ stack[2].calls[1].src = stack[1].calls[1].src

\* The os.rename calls that succeeded, in order.
Succeeded(calls) == SelectSeq(calls, LAMBDA c : c.ok)

\* C15: the rollback log file a batch has written holds the entries of the
\* renames of that batch and no other: one entry for each of its os.rename
\* calls that succeeded, in order, with the names of that call.
C15_LogFileOfThisBatch ==
    \A b \in Batches :
        b.log_file.status = "written" =>
            /\ Len(b.log_file.entries) = Len(Succeeded(b.calls))
            /\ \A n \in 1..Len(b.log_file.entries) :
                  /\ b.log_file.entries[n].old_name = Basename(Succeeded(b.calls)[n].src)
                  /\ b.log_file.entries[n].new_name = Basename(Succeeded(b.calls)[n].dst)

\* The second batch of a session, not interrupted and started after the
\* first had returned, has written a log file with more entries than it
\* has appended.
C15_LogHoldsEarlierBatch ==
    /\ Len(stack) = 1 /\ Top.h = "rename" /\ Top.events = 0
    /\ batches = 2
    /\ Top.log_file.status = "written"
    /\ Len(Top.log_file.entries) > Top.logged

\* C16: with Add Suffix Before Extension the preview of a file stem.ext and
\* a suffix text of letters, digits, hyphens or underscores completes and
\* plans the one triple with the new name stem + text + ext.
C16_SuffixPlanned ==
    probe.done =>
        LET old_name == probe.stem \o probe.ext
        IN /\ probe.result.ok
           /\ probe.result.val =
                  <<<<Join(DirP, old_name), old_name, probe.stem \o probe.text \o probe.ext>>>>

\* The preview of a.t with the suffix 1 has ended with re.error.
C16_DigitSuffixRaised ==
    /\ probe.done
    /\ probe.stem = <<"a">> /\ probe.ext = <<".", "t">>
    /\ probe.text = <<"1">>
    /\ ~probe.result.ok

\* The preview of a.t with the suffix 11 plans the new name I.t.
C16_OctalSuffixPlanned ==
    /\ probe.done
    /\ probe.stem = <<"a">> /\ probe.ext = <<".", "t">>
    /\ probe.text = <<"1", "1">>
    /\ probe.result.ok
    /\ probe.result.val[1][3] = <<"I", ".", "t">>

=============================================================================
